---------------------------- MODULE Spec2Model ----------------------------
(***************************************************************************)
(* A model of jira_bug_summarizer.py (class JiraBugSummarizer): the run()  *)
(* pipeline (fetch, per-issue extraction, summarization, structuring,      *)
(* the two output files) and the pure helpers of the report renderer.      *)
(***************************************************************************)
EXTENDS Integers, Sequences, FiniteSets, TLC

VARIABLES
    pc,            \* position of run(): which statement executes next
    py311,         \* the interpreter is Python 3.11 or later (fromisoformat reads more)
    team_field_id, \* self.team_field_id, the cached id of the Team field
    bugs,          \* run(): the list fetch_bugs returned
    fetch_error,   \* whether jira.search_issues raised inside fetch_bugs
    idx,           \* run(): 1-based position of the for-loop over bugs
    comments,      \* run(): comments of the issue being processed
    summary,       \* run(): summary of the issue being processed
    all_bug_data,  \* run(): the records structured so far
    bedrock_log,   \* every bedrock_client.invoke_model call: [bug_key, ok]
    files,         \* names of the files run() has written
    report,        \* run(): slack_table_message, once rendered
    error,         \* the exception that left run(), if any
    log,           \* the "Error ..." lines printed so far
    adf_body,      \* _extract_text_from_adf called on its own: the argument
    body_text      \* _extract_text_from_adf called on its own: the result

vars == <<pc, py311, team_field_id, bugs, fetch_error, idx, comments, summary,
          all_bug_data, bedrock_log, files, report, error, log, adf_body, body_text>>

----------------------------------------------------------------------------
(* Bounds of the model *)

\* Issues in one result of the issue source
MaxIssues == 2

\* Comments on one issue that has any
MaxComments == 2

\* Records in one call of format_slack_table
MaxRecords == 2

\* Records in one call of format_slack_table that differ only in priority
MaxSorted == 3

\* Words in one generated summary text
MaxWords == 3

\* Text leaves in one rich-text document
MaxLeaves == 3

\* Containers nested in one another in one rich-text document
MaxDepth == 2

----------------------------------------------------------------------------
(* Literals of the program *)

NoComments == "No comments available."

FailedSummary == "Failed to generate summary."

NoBugsFound == "No bugs found."

NoSummaryAvailable == "No summary available"

UnknownPadded == "Unknown   "

jira_url == "https://cloudbees.atlassian.net"

\* hasattr(obj, name) is False
Absent == "<absent>"

\* Python's None
None == "<None>"

\* No exception has left run()
NoError == [type |-> "none", in |-> "none"]

\* A helper returned normally
Returned == "none"

----------------------------------------------------------------------------
(* Python's str operations, on TLA+ strings *)

Min(a, b) == IF a <= b THEN a ELSE b

RECURSIVE Repeat(_, _)
\* c * n
Repeat(c, n) ==
    IF n <= 0 THEN ""
    ELSE IF n = 1 THEN c
    ELSE Repeat(c, n \div 2) \o Repeat(c, n - n \div 2)

Spaces(n) == Repeat(" ", n)

\* s[:n]
Prefix(s, n) == SubSeq(s, 1, Min(n, Len(s)))

\* s.ljust(w): padded on the right, never cut
ljust(s, w) == s \o Spaces(w - Len(s))

\* s.rjust(w)
rjust(s, w) == Spaces(w - Len(s)) \o s

\* The whitespace str.split() and str.strip() recognise
IsSpace(c) == c \in {" ", "\n", "\t"}

Least(S) == CHOOSE x \in S : \A y \in S : x <= y

Greatest(S) == CHOOSE x \in S : \A y \in S : y <= x

\* The first position from i on that holds whitespace (or not), Len(s) + 1 if none
NextSpace(s, i) == Least({j \in i..Len(s) : IsSpace(SubSeq(s, j, j))} \cup {Len(s) + 1})

NextNonSpace(s, i) == Least({j \in i..Len(s) : ~IsSpace(SubSeq(s, j, j))} \cup {Len(s) + 1})

\* s.strip()
strip(s) ==
    LET first == NextNonSpace(s, 1)
        last == Greatest({j \in 1..Len(s) : ~IsSpace(SubSeq(s, j, j))} \cup {0})
    IN SubSeq(s, first, last)

RECURSIVE split_from(_, _)
split_from(s, i) ==
    LET start == NextNonSpace(s, i)
        stop == NextSpace(s, start)
    IN IF start > Len(s) THEN <<>>
       ELSE <<SubSeq(s, start, stop - 1)>> \o split_from(s, stop)

\* s.split(): the maximal runs of non-whitespace, in order
split(s) == split_from(s, 1)

RECURSIVE join(_, _)
\* sep.join(parts)
join(sep, parts) ==
    IF parts = <<>> THEN ""
    ELSE IF Len(parts) = 1 THEN parts[1]
    ELSE parts[1] \o sep \o join(sep, Tail(parts))

RECURSIVE replace_Z(_)
\* s.replace('Z', '+00:00')
replace_Z(s) ==
    IF s = "" THEN ""
    ELSE (IF SubSeq(s, 1, 1) = "Z" THEN "+00:00" ELSE SubSeq(s, 1, 1))
         \o replace_Z(SubSeq(s, 2, Len(s)))

----------------------------------------------------------------------------
(* datetime.fromisoformat, strftime and subtraction *)

Digits == <<"0", "1", "2", "3", "4", "5", "6", "7", "8", "9">>

IsDigit(c) == \E i \in 1..10 : Digits[i] = c

DigitVal(c) == (CHOOSE i \in 1..10 : Digits[i] = c) - 1

AllDigits(s) == \A i \in 1..Len(s) : IsDigit(SubSeq(s, i, i))

RECURSIVE Num(_)
\* int(s) of a string of digits
Num(s) == IF s = "" THEN 0 ELSE 10 * Num(SubSeq(s, 1, Len(s) - 1)) + DigitVal(SubSeq(s, Len(s), Len(s)))

\* str(n) zero-padded to w digits (%Y, %m, %d of strftime), n >= 0
RECURSIVE ZeroPad(_, _)
ZeroPad(n, w) == IF w <= 0 THEN "" ELSE ZeroPad(n \div 10, w - 1) \o Digits[(n % 10) + 1]

IsLeap(y) == (y % 4 = 0 /\ y % 100 # 0) \/ y % 400 = 0

DaysInMonth(y, m) ==
    IF m = 2 THEN (IF IsLeap(y) THEN 29 ELSE 28)
    ELSE IF m \in {4, 6, 9, 11} THEN 30 ELSE 31

\* Days from 1970-01-01 to the civil date y-m-d (proleptic Gregorian)
DaysFromCivil(y, m, d) ==
    LET yy == IF m <= 2 THEN y - 1 ELSE y
        era == yy \div 400
        yoe == yy - era * 400
        mp == IF m > 2 THEN m - 3 ELSE m + 9
        doy == (153 * mp + 2) \div 5 + d - 1
        doe == yoe * 365 + yoe \div 4 - yoe \div 100 + doy
    IN era * 146097 + doe - 719468

InvalidDate ==
    [ok |-> FALSE, aware |-> FALSE, year |-> 0, month |-> 0, day |-> 0, days |-> 0, sod |-> 0]

\* "YYYY-MM-DD" with a month of 1..12 and a day of that month
IsDateText(s) ==
    /\ Len(s) = 10
    /\ AllDigits(SubSeq(s, 1, 4)) /\ SubSeq(s, 5, 5) = "-"
    /\ AllDigits(SubSeq(s, 6, 7)) /\ SubSeq(s, 8, 8) = "-"
    /\ AllDigits(SubSeq(s, 9, 10))
    /\ Num(SubSeq(s, 1, 4)) >= 1
    /\ Num(SubSeq(s, 6, 7)) \in 1..12
    /\ Num(SubSeq(s, 9, 10)) \in 1..DaysInMonth(Num(SubSeq(s, 1, 4)), Num(SubSeq(s, 6, 7)))

\* "HH:MM:SS"
IsTimeText(s) ==
    /\ Len(s) = 8
    /\ AllDigits(SubSeq(s, 1, 2)) /\ SubSeq(s, 3, 3) = ":"
    /\ AllDigits(SubSeq(s, 4, 5)) /\ SubSeq(s, 6, 6) = ":"
    /\ AllDigits(SubSeq(s, 7, 8))
    /\ Num(SubSeq(s, 1, 2)) <= 23 /\ Num(SubSeq(s, 4, 5)) <= 59 /\ Num(SubSeq(s, 7, 8)) <= 59

\* ".fff" or ".ffffff"
IsFractionText(s) ==
    /\ Len(s) \in {4, 7} /\ SubSeq(s, 1, 1) = "." /\ AllDigits(SubSeq(s, 2, Len(s)))

\* "+HH:MM" or "-HH:MM"; from Python 3.11 on also "+HHMM", the form Jira sends
IsOffsetText(s, v311) ==
    /\ Len(s) >= 1 /\ SubSeq(s, 1, 1) \in {"+", "-"}
    /\ \/ /\ Len(s) = 6 /\ AllDigits(SubSeq(s, 2, 3)) /\ SubSeq(s, 4, 4) = ":"
          /\ AllDigits(SubSeq(s, 5, 6))
       \/ /\ v311 /\ Len(s) = 5 /\ AllDigits(SubSeq(s, 2, 5))

OffsetSeconds(s) ==
    LET hh == Num(SubSeq(s, 2, 3))
        mm == Num(SubSeq(s, Len(s) - 1, Len(s)))
        v == hh * 3600 + mm * 60
    IN IF SubSeq(s, 1, 1) = "-" THEN 0 - v ELSE v

\* The length of the fraction that follows the seconds, if one does
FractionLen(rest) ==
    IF rest = "" \/ SubSeq(rest, 1, 1) # "." THEN 0
    ELSE IF Len(rest) >= 7 /\ AllDigits(SubSeq(rest, 2, 7)) THEN 7 ELSE 4

\* datetime.fromisoformat(s), for the texts date[<sep>time[fraction][offset]]:
\* every other text is a ValueError (ok = FALSE).  A text without offset
\* gives a naive datetime (aware = FALSE).  The instant is days from the epoch
\* plus sod seconds (the offset subtracted, so sod may leave 0..86399).
fromisoformat(s, v311) ==
    IF Len(s) < 10 \/ ~IsDateText(SubSeq(s, 1, 10)) THEN InvalidDate
    ELSE LET y == Num(SubSeq(s, 1, 4))
             m == Num(SubSeq(s, 6, 7))
             d == Num(SubSeq(s, 9, 10))
             days == DaysFromCivil(y, m, d)
         IN IF Len(s) = 10
            THEN [ok |-> TRUE, aware |-> FALSE, year |-> y, month |-> m, day |-> d,
                  days |-> days, sod |-> 0]
            ELSE IF Len(s) < 19 \/ ~IsTimeText(SubSeq(s, 12, 19)) THEN InvalidDate
            ELSE LET t == SubSeq(s, 12, 19)
                     secs == Num(SubSeq(t, 1, 2)) * 3600 + Num(SubSeq(t, 4, 5)) * 60
                             + Num(SubSeq(t, 7, 8))
                     rest == SubSeq(s, 20, Len(s))
                     fl == FractionLen(rest)
                     frac == SubSeq(rest, 1, Min(fl, Len(rest)))
                     off == SubSeq(rest, Min(fl, Len(rest)) + 1, Len(rest))
                 IN IF fl > 0 /\ ~IsFractionText(frac) THEN InvalidDate
                    ELSE IF off = ""
                    THEN [ok |-> TRUE, aware |-> FALSE, year |-> y, month |-> m,
                          day |-> d, days |-> days, sod |-> secs]
                    ELSE IF ~IsOffsetText(off, v311) THEN InvalidDate
                    ELSE [ok |-> TRUE, aware |-> TRUE, year |-> y, month |-> m,
                          day |-> d, days |-> days, sod |-> secs - OffsetSeconds(off)]

\* (a - b).days: whole days, rounded down (negative when b is later than a)
timedelta_days(a, b) == (a.days - b.days) + ((a.sod - b.sod) \div 86400)

\* dt.strftime("%Y-%m-%d")
strftime_date(dt) == ZeroPad(dt.year, 4) \o "-" \o ZeroPad(dt.month, 2) \o "-" \o ZeroPad(dt.day, 2)

----------------------------------------------------------------------------
(* The issue source: what jira.search_issues can hand back *)

\* A node of a rich-text document as the JSON parser hands it over: a dict
\* (with or without the keys type, text and content), a list, or a string
TextNode(t) == [py |-> "dict", type |-> "text", text |-> t, has_content |-> FALSE, content |-> <<>>]

ContainerNode(type, children) ==
    [py |-> "dict", type |-> type, text |-> Absent, has_content |-> TRUE, content |-> children]

ListNode(items) ==
    [py |-> "list", type |-> Absent, text |-> Absent, has_content |-> FALSE, content |-> items]

\* A dict without text and without content, such as a hardBreak
BareNode(type) ==
    [py |-> "dict", type |-> type, text |-> Absent, has_content |-> FALSE, content |-> <<>>]

StrNode == [py |-> "str", type |-> Absent, text |-> Absent, has_content |-> FALSE, content |-> <<>>]

\* comment.raw['body']: a plain string, a rich-text document, or neither
\* (null)
PlainBody(t) == [py |-> "str", text |-> t, doc |-> StrNode]

AdfBody(doc) == [py |-> "dict", text |-> "", doc |-> doc]

NullBody == [py |-> "none", text |-> "", doc |-> StrNode]

RawComment == [author |-> "ann", created |-> "2024-01-05T10:00:00Z", body |-> PlainBody("text")]

\* Comments that differ in the body
BodyComments ==
    {[RawComment EXCEPT !.body = b] :
        b \in {NullBody,
               AdfBody(ContainerNode("doc", <<ContainerNode("paragraph",
                           <<TextNode("see"), BareNode("hardBreak"), TextNode("log")>>)>>))}}

\* issue.fields.comment: absent, or an object holding a list of comments
CommentFields ==
    {[present |-> FALSE, comments |-> <<>>]} \cup
    {[present |-> TRUE, comments |-> [i \in 1..n |-> RawComment]] : n \in {0, MaxComments}}

\* issue.fields of a well-formed issue; a field is a value, None or Absent
\* (components and labels: the list, empty when absent or None).
BaseFields ==
    [comment |-> [present |-> TRUE, comments |-> <<>>],
     summary |-> "Login fails",
     status |-> "Open",
     priority |-> "High",
     created |-> "2024-01-05T10:00:00Z",
     updated |-> "2024-05-30T08:15:00Z",
     components |-> <<>>,
     labels |-> <<>>,
     team |-> None,
     reporter |-> None,
     assignee |-> None]

\* Issues that differ in what run()'s control flow reads: the comment list,
\* and one of the attributes read without hasattr absent (or priority None)
ControlFields ==
    {[g EXCEPT !.comment = c] :
        c \in CommentFields,
        g \in {BaseFields,
               [BaseFields EXCEPT !.summary = Absent],
               [BaseFields EXCEPT !.status = Absent],
               [BaseFields EXCEPT !.priority = Absent],
               [BaseFields EXCEPT !.priority = None]}}

\* Creation timestamps around the instant of the run (2024-06-01 12:00 UTC),
\* in the forms the issue source and other tools write, and texts that are
\* no timestamp
CreatedTexts ==
    {"2024-02-27T12:00:00Z", "2024-05-25T12:00:00Z", "2024-05-25T12:00:01Z",
     "2024-06-01T12:00:01Z", "2024-06-03T10:00:00.000+0000",
     "2024-05-01T10:00:00.000+0000", "2024-06-01T06:00:01.123456-06:00",
     "2024-05-01", "2024-13-45T00:00:00Z", "yesterday", ""}

\* Issues that differ in the body of the first comment or in the updated
\* attribute
DetailFields ==
    {[BaseFields EXCEPT !.comment = [present |-> TRUE, comments |-> <<c>>]] : c \in BodyComments}
    \cup {[BaseFields EXCEPT !.updated = u] :
              u \in {Absent, "yesterday at noon", "2024-05-30T08:15:00.000+0000"}}

\* Issues that differ in the created attribute
AgingFields ==
    {[BaseFields EXCEPT !.created = c] : c \in CreatedTexts \cup {Absent, None}}

RawFields == ControlFields \cup AgingFields \cup DetailFields

\* issue.key of the i-th issue of a result: keys are unique
IssueKey(i) == "BUG-" \o ToString(i)

IssuesOf(Fields) ==
    UNION {{[i \in 1..n |-> [key |-> IssueKey(i), fields |-> f[i]]] : f \in [1..n -> Fields]} :
             n \in 0..MaxIssues}

\* The results of jira.search_issues the model explores
IssueLists == IssuesOf(ControlFields) \cup IssuesOf(AgingFields) \cup IssuesOf(DetailFields)

\* datetime.now(timezone.utc), the instant of the run
Now == fromisoformat("2024-06-01T12:00:00+00:00", TRUE)

----------------------------------------------------------------------------
(* Comment extractor and field normalizer *)

RECURSIVE extract_content(_, _)
\* _extract_text_from_adf, extract_content(node): text_parts after the call.
\* A dict of type 'text' gives node.get('text', ''); any other dict with a
\* content key gives its children in order; a list gives its items in order;
\* anything else gives nothing.
extract_content(node, text_parts) ==
    LET RECURSIVE each(_, _, _)
        each(nodes, k, parts) ==
            IF k > Len(nodes) THEN parts
            ELSE each(nodes, k + 1, extract_content(nodes[k], parts))
    IN IF node.py = "dict"
       THEN IF node.type = "text"
            THEN Append(text_parts, IF node.text = Absent THEN "" ELSE node.text)
            ELSE IF node.has_content THEN each(node.content, 1, text_parts)
            ELSE text_parts
       ELSE IF node.py = "list" THEN each(node.content, 1, text_parts)
       ELSE text_parts

\* A faulty variant: the children of a container are visited last to first.
_extract_text_from_adf_reversed(adf_body_in) ==
    LET RECURSIVE rev(_)
        rev(node) ==
            IF node.py = "dict" /\ node.type = "text" THEN node
            ELSE [node EXCEPT !.content =
                     [k \in 1..Len(node.content) |-> rev(node.content[Len(node.content) + 1 - k])]]
    IN join(" ", extract_content(rev(adf_body_in), <<>>))

\* _extract_text_from_adf: ' '.join(text_parts)
_extract_text_from_adf(adf_body_in) == join(" ", extract_content(adf_body_in, <<>>))

\* get_bug_comments: the AttributeError of issue.fields.comment.comments is
\* not caught; the body is the string, the text of the document, or "" for
\* a body that is neither (nothing printed).
get_bug_comments(issue) ==
    IF ~issue.fields.comment.present
    THEN [raised |-> "AttributeError", value |-> <<>>]
    ELSE [raised |-> Returned,
          value |-> [i \in 1..Len(issue.fields.comment.comments) |->
                        LET body == issue.fields.comment.comments[i].body IN
                        [author |-> issue.fields.comment.comments[i].author,
                         created |-> issue.fields.comment.comments[i].created,
                         body |-> IF body.py = "str" THEN body.text
                                  ELSE IF body.py = "dict" THEN _extract_text_from_adf(body.doc)
                                  ELSE ""]]]

\* calculate_bug_aging: age_delta.days, or 0 with a log line on any exception
\* (ValueError of fromisoformat; TypeError of aware - naive).
calculate_bug_aging(created_date, now, v311) ==
    LET created == fromisoformat(replace_Z(created_date), v311) IN
    IF ~created.ok \/ ~created.aware
    THEN [value |-> 0, log |-> <<"Error calculating bug aging">>]
    ELSE [value |-> timedelta_days(now, created), log |-> <<>>]

\* get_team_from_issue: the name of the Team field's value (the field's id
\* known and the value present), else None
get_team_from_issue(issue, field_id) ==
    IF field_id = None \/ issue.fields.team \in {Absent, None, ""} THEN None
    ELSE issue.fields.team

\* The record structure_bug_data returns when nothing raises
NoRecord == [bug_key |-> ""]

\* structure_bug_data: created is read under hasattr and aged only when
\* truthy; issue.fields.summary, .status and .priority are read without
\* hasattr, so an absent one raises AttributeError; a None status or priority
\* is "Unknown".
structure_bug_data(issue, cs, s, field_id, now, v311) ==
    LET f == issue.fields
        created_date == IF f.created = Absent THEN None ELSE f.created
        aging == IF created_date \in {None, ""} THEN [value |-> 0, log |-> <<>>]
                 ELSE calculate_bug_aging(created_date, now, v311)
    IN IF f.summary = Absent \/ f.status = Absent \/ f.priority = Absent
       THEN [raised |-> "AttributeError", value |-> NoRecord, log |-> aging.log]
       ELSE [raised |-> Returned,
             log |-> aging.log,
             value |->
               [bug_key |-> issue.key,
                summary |-> f.summary,
                status |-> IF f.status = None THEN "Unknown" ELSE f.status,
                priority |-> IF f.priority = None THEN "Unknown" ELSE f.priority,
                bug_url |-> jira_url \o "/browse/" \o issue.key,
                aging |-> [created_date |-> created_date, days_open |-> aging.value],
                last_updated |-> IF f.updated = Absent THEN None ELSE f.updated,
                team |-> [team_name |-> get_team_from_issue(issue, field_id),
                          components |-> f.components,
                          labels |-> f.labels],
                reporter |-> [name |-> IF f.reporter \in {Absent, None} THEN "Unknown"
                                       ELSE f.reporter],
                assignee |-> [name |-> IF f.assignee \in {Absent, None} THEN "Unassigned"
                                       ELSE f.assignee],
                comments |-> [count |-> Len(cs), summary |-> s, details |-> cs]]]

----------------------------------------------------------------------------
(* Summary request builder *)

\* The text the summarization service returns for a prompt; the prompt names
\* the bug and lists its comments.
BedrockText(bug_key, cs) ==
    "- " \o ToString(Len(cs)) \o " comments on " \o bug_key \o "\n- no blockers"

\* A faulty variant: the except clause is missing, the service error leaves.
summarize_comments_uncaught(bug_key, cs, service_ok) ==
    IF cs = <<>>
    THEN [raised |-> Returned, value |-> NoComments, calls |-> <<>>, log |-> <<>>]
    ELSE IF service_ok
    THEN [raised |-> Returned, value |-> BedrockText(bug_key, cs),
          calls |-> <<[bug_key |-> bug_key, ok |-> TRUE]>>, log |-> <<>>]
    ELSE [raised |-> "ServiceError", value |-> FailedSummary,
          calls |-> <<[bug_key |-> bug_key, ok |-> FALSE]>>, log |-> <<>>]

\* A faulty variant: the empty comment list is sent to the service too.
summarize_comments_always_calls(bug_key, cs, service_ok) ==
    IF service_ok
    THEN [raised |-> Returned, value |-> BedrockText(bug_key, cs),
          calls |-> <<[bug_key |-> bug_key, ok |-> TRUE]>>, log |-> <<>>]
    ELSE [raised |-> Returned, value |-> FailedSummary,
          calls |-> <<[bug_key |-> bug_key, ok |-> FALSE]>>,
          log |-> <<"Error summarizing comments">>]

\* summarize_comments: the short-circuit on no comments, one invoke_model
\* call otherwise, every exception of the call caught and replaced.
summarize_comments(bug_key, cs, service_ok) ==
    IF cs = <<>>
    THEN [raised |-> Returned, value |-> NoComments, calls |-> <<>>, log |-> <<>>]
    ELSE IF service_ok
    THEN [raised |-> Returned, value |-> BedrockText(bug_key, cs),
          calls |-> <<[bug_key |-> bug_key, ok |-> TRUE]>>, log |-> <<>>]
    ELSE [raised |-> Returned, value |-> FailedSummary,
          calls |-> <<[bug_key |-> bug_key, ok |-> FALSE]>>,
          log |-> <<"Error summarizing comments">>]

----------------------------------------------------------------------------
(* Priority sorter *)

\* A faulty variant: an unrecognized priority has no default and sorts first.
priority_order_no_default(priority) ==
    CASE priority = "Highest" -> 1
      [] priority = "High" -> 2
      [] priority = "Medium" -> 3
      [] priority = "Low" -> 4
      [] priority = "Lowest" -> 5
      [] priority = "Unknown" -> 6
      [] OTHER -> 0

\* priority_order.get(bug['priority'], 6)
priority_order(priority) ==
    CASE priority = "Highest" -> 1
      [] priority = "High" -> 2
      [] priority = "Medium" -> 3
      [] priority = "Low" -> 4
      [] priority = "Lowest" -> 5
      [] priority = "Unknown" -> 6
      [] OTHER -> 6

RECURSIVE insert_by_priority(_, _)
\* One step of the stable sort: bug goes behind every record whose rank is
\* not greater than its own.
insert_by_priority(sorted, bug) ==
    IF sorted = <<>> THEN <<bug>>
    ELSE IF priority_order(Head(sorted).priority) <= priority_order(bug.priority)
         THEN <<Head(sorted)>> \o insert_by_priority(Tail(sorted), bug)
         ELSE <<bug>> \o sorted

RECURSIVE sort_prefix(_, _)
sort_prefix(all, n) ==
    IF n = 0 THEN <<>> ELSE insert_by_priority(sort_prefix(all, n - 1), all[n])

\* sort_bugs_by_priority: sorted(all_bug_data, key=rank), a stable sort
sort_bugs_by_priority(all) == sort_prefix(all, Len(all))

----------------------------------------------------------------------------
(* Table renderer *)

max_width == 100

\* A faulty variant: a long text is returned whole, with no "...".
format_team_info_uncut(team_data) ==
    LET team_parts == team_data.components \o SubSeq(team_data.labels, 1, Min(2, Len(team_data.labels)))
    IN IF team_data.team_name \notin {None, ""} THEN team_data.team_name
       ELSE IF team_parts = <<>> THEN "N/A"
       ELSE join(", ", team_parts)

\* format_team_info: the team name, else components and the first 2 labels
\* comma-joined, else N/A; over 18 characters cut to 15 and "..."
format_team_info(team_data) ==
    LET cut(t) == IF Len(t) > 18 THEN Prefix(t, 15) \o "..." ELSE t
        team_parts == team_data.components \o SubSeq(team_data.labels, 1, Min(2, Len(team_data.labels)))
    IN IF team_data.team_name \notin {None, ""} THEN cut(team_data.team_name)
       ELSE IF team_parts = <<>> THEN "N/A"
       ELSE cut(join(", ", team_parts))

\* A faulty variant: the except clause falls back to "Unknown   ", not to
\* the text it was given.
last_updated_cell_unknown(last_updated, v311) ==
    IF last_updated \in {None, ""} THEN UnknownPadded
    ELSE LET dt == fromisoformat(replace_Z(last_updated), v311) IN
         IF dt.ok THEN strftime_date(dt) ELSE UnknownPadded

\* format_slack_table, "Format last updated date": "Unknown   " for a falsy
\* value, the date when it parses, else the first 10 characters as they are
last_updated_cell(last_updated, v311) ==
    IF last_updated \in {None, ""} THEN UnknownPadded
    ELSE LET dt == fromisoformat(replace_Z(last_updated), v311) IN
         IF dt.ok THEN strftime_date(dt) ELSE Prefix(last_updated, 10)

\* A faulty variant: the boundary days 7, 30 and 90 fall in the older bucket.
age_emoji_strict(days_open) ==
    IF days_open < 7 THEN "green"
    ELSE IF days_open < 30 THEN "yellow"
    ELSE IF days_open < 90 THEN "orange"
    ELSE "red"

\* format_slack_table, "Determine aging indicator"
age_emoji(days_open) ==
    IF days_open <= 7 THEN "green"
    ELSE IF days_open <= 30 THEN "yellow"
    ELSE IF days_open <= 90 THEN "orange"
    ELSE "red"

\* The one character an indicator takes in the row
Glyph(emoji) ==
    CASE emoji = "green" -> "G" [] emoji = "yellow" -> "Y"
      [] emoji = "orange" -> "O" [] OTHER -> "R"

\* format_slack_table: one row of the overview table
overview_row(i, bug, v311) ==
    [idx |-> rjust(ToString(i), 2),
     ticket_id |-> ljust(Prefix(bug.bug_key, 11), 11),
     age_emoji |-> age_emoji(bug.aging.days_open),
     days_str |-> ljust(Prefix(Glyph(age_emoji(bug.aging.days_open)) \o " "
                                  \o rjust(ToString(bug.aging.days_open), 3), 9), 9),
     last_updated_str |-> last_updated_cell(bug.last_updated, v311),
     status |-> ljust(Prefix(bug.status, 8), 8),
     priority |-> ljust(Prefix(bug.priority, 8), 8),
     teams |-> ljust(Prefix(format_team_info(bug.team), 18), 18),
     assignee |-> ljust(Prefix(bug.assignee.name, 14), 14)]

RECURSIVE wrap_words(_, _, _, _)
\* format_slack_table: the for-loop over the words of one summary
wrap_words(words, i, current_line, lines) ==
    IF i > Len(words) THEN [current_line |-> current_line, lines |-> lines]
    ELSE IF Len(current_line) + Len(words[i]) + 1 <= max_width
         THEN wrap_words(words, i + 1, current_line \o words[i] \o " ", lines)
         ELSE wrap_words(words, i + 1, words[i] \o " ",
                         Append(lines, ljust(strip(current_line), max_width)))

\* A faulty variant: the line left in current_line after the last word is
\* never appended.
summary_lines_unflushed(summary_text) ==
    LET r == wrap_words(split(summary_text), 1, "", <<>>)
    IN IF r.lines = <<>> THEN <<ljust(NoSummaryAvailable, max_width)>> ELSE r.lines

\* format_slack_table: the lines one summary is wrapped to
summary_lines(summary_text) ==
    LET r == wrap_words(split(summary_text), 1, "", <<>>)
        lines == IF r.current_line # ""
                 THEN Append(r.lines, ljust(strip(r.current_line), max_width))
                 ELSE r.lines
    IN IF lines = <<>> THEN <<ljust(NoSummaryAvailable, max_width)>> ELSE lines

\* format_slack_table: one line of the links section
link_line(i, bug) ==
    [idx |-> i, url |-> bug.bug_url, key |-> bug.bug_key,
     text |-> Prefix(bug.summary, 60) \o (IF Len(bug.summary) > 60 THEN "..." ELSE "")]

\* format_slack_table: the statistics footer
statistics(all) ==
    LET N == 1..Len(all) IN
    [total_bugs |-> Len(all),
     critical_age |-> Cardinality({i \in N : all[i].aging.days_open > 90}),
     aging |-> Cardinality({i \in N : 30 < all[i].aging.days_open /\ all[i].aging.days_open <= 90}),
     active |-> Cardinality({i \in N : 7 < all[i].aging.days_open /\ all[i].aging.days_open <= 30}),
     recent |-> Cardinality({i \in N : all[i].aging.days_open <= 7})]

NotRendered == [text |-> "", rows |-> <<>>, summaries |-> <<>>, links |-> <<>>,
                stats |-> statistics(<<>>)]

\* format_slack_table: "No bugs found." for an empty list; else the records
\* sorted by priority, then the overview rows, the wrapped summaries, the
\* links and the statistics (the title line with the time of day is left out)
format_slack_table(all_bug_data_in, v311) ==
    IF all_bug_data_in = <<>> THEN [NotRendered EXCEPT !.text = NoBugsFound]
    ELSE LET all == sort_bugs_by_priority(all_bug_data_in) IN
         [text |-> "JIRA BUG SUMMARY REPORT",
          rows |-> [i \in 1..Len(all) |-> overview_row(i, all[i], v311)],
          summaries |-> [i \in 1..Len(all) |->
                            [ticket_id |-> ljust(Prefix(all[i].bug_key, 11), 11),
                             lines |-> summary_lines(all[i].comments.summary)]],
          links |-> [i \in 1..Len(all) |-> link_line(i, all[i])],
          stats |-> statistics(all)]

----------------------------------------------------------------------------
(* run() *)

Init ==
    /\ pc = "fetch_bugs"
    /\ py311 \in BOOLEAN
    /\ team_field_id = None
    /\ bugs = <<>>
    /\ fetch_error = FALSE
    /\ idx = 1
    /\ comments = <<>>
    /\ summary = ""
    /\ all_bug_data = <<>>
    /\ bedrock_log = <<>>
    /\ files = {}
    /\ report = NotRendered
    /\ error = NoError
    /\ log = <<>>
    /\ adf_body = StrNode
    /\ body_text = ""

\* get_team_field_id: the id of the Atlassian Team field, None when there is
\* none or jira.fields() raises (caught, logged)
get_team_field_id(lookup) ==
    CASE lookup = "found" -> [value |-> "customfield_12000", log |-> <<>>]
      [] lookup = "missing" -> [value |-> None, log |-> <<>>]
      [] OTHER -> [value |-> None, log |-> <<"Error getting team field ID">>]

\* fetch_bugs: the issues of the source, or [] when search_issues raises
fetch_bugs(source_ok, issues) ==
    IF source_ok
    THEN [value |-> issues, log |-> <<>>]
    ELSE [value |-> <<>>, log |-> <<"Error fetching bugs">>]

\* run(): bugs = self.fetch_bugs(self.jql_query)
run_fetch_bugs ==
    /\ pc = "fetch_bugs"
    /\ \E lookup \in {"found", "missing", "error"}, source_ok \in BOOLEAN, issues \in IssueLists :
       \E t \in {get_team_field_id(lookup)}, r \in {fetch_bugs(source_ok, issues)} :
             /\ team_field_id' = t.value
             /\ fetch_error' = ~source_ok
             /\ bugs' = r.value
             /\ log' = log \o t.log \o r.log
             /\ pc' = "check_bugs"
    /\ UNCHANGED <<adf_body, body_text, py311, idx, comments, summary, all_bug_data, bedrock_log, files, report, error>>

\* A faulty variant: run() goes on with an empty result.
after_fetch_no_check(fetched) == "save_json"

\* run(): "if not bugs: return", else into the loop
after_fetch(fetched) == IF fetched = <<>> THEN "done" ELSE "get_bug_comments"

run_check_bugs ==
    /\ pc = "check_bugs"
    /\ pc' = after_fetch(bugs)
    /\ idx' = 1
    /\ all_bug_data' = <<>>
    /\ UNCHANGED <<adf_body, body_text, py311, team_field_id, bugs, fetch_error, comments, summary,
                   bedrock_log, files, report, error, log>>

\* run(): comments = self.get_bug_comments(issue)
run_get_bug_comments ==
    /\ pc = "get_bug_comments"
    /\ \E r \in {get_bug_comments(bugs[idx])} :
       /\ comments' = r.value
       /\ error' = IF r.raised = Returned THEN error
                   ELSE [type |-> r.raised, in |-> "get_bug_comments"]
       /\ pc' = IF r.raised = Returned THEN "summarize_comments" ELSE "raised"
    /\ UNCHANGED <<adf_body, body_text, py311, team_field_id, bugs, fetch_error, idx, summary, all_bug_data,
                   bedrock_log, files, report, log>>

\* run(): summary = self.summarize_comments(issue.key, comments)
run_summarize_comments ==
    /\ pc = "summarize_comments"
    /\ \E service_ok \in BOOLEAN :
       \E r \in {summarize_comments(bugs[idx].key, comments, service_ok)} :
          /\ summary' = r.value
          /\ bedrock_log' = bedrock_log \o r.calls
          /\ log' = log \o r.log
          /\ error' = IF r.raised = Returned THEN error
                      ELSE [type |-> r.raised, in |-> "summarize_comments"]
          /\ pc' = IF r.raised = Returned THEN "structure_bug_data" ELSE "raised"
    /\ UNCHANGED <<adf_body, body_text, py311, team_field_id, bugs, fetch_error, idx, comments, all_bug_data,
                   files, report>>

\* run(): bug_data = self.structure_bug_data(...); all_bug_data.append(bug_data)
run_structure_bug_data ==
    /\ pc = "structure_bug_data"
    /\ \E r \in {structure_bug_data(bugs[idx], comments, summary, team_field_id, Now, py311)} :
       /\ log' = log \o r.log
       /\ IF r.raised = Returned
          THEN /\ all_bug_data' = Append(all_bug_data, r.value)
               /\ idx' = idx + 1
               /\ pc' = IF idx = Len(bugs) THEN "save_json" ELSE "get_bug_comments"
               /\ error' = error
          ELSE /\ error' = [type |-> r.raised, in |-> "structure_bug_data"]
               /\ pc' = "raised"
               /\ UNCHANGED <<all_bug_data, idx>>
    /\ UNCHANGED <<adf_body, body_text, py311, team_field_id, bugs, fetch_error, comments, summary,
                   bedrock_log, files, report>>

\* run(): json.dump(all_bug_data, f) into bug_report.json
run_save_json ==
    /\ pc = "save_json"
    /\ files' = files \cup {"bug_report.json"}
    /\ pc' = "format_slack_table"
    /\ UNCHANGED <<adf_body, body_text, py311, team_field_id, bugs, fetch_error, idx, comments, summary,
                   all_bug_data, bedrock_log, report, error, log>>

\* run(): slack_table_message = self.format_slack_table(all_bug_data)
run_format_slack_table ==
    /\ pc = "format_slack_table"
    /\ report' = format_slack_table(all_bug_data, py311)
    /\ pc' = "save_report"
    /\ UNCHANGED <<adf_body, body_text, py311, team_field_id, bugs, fetch_error, idx, comments, summary,
                   all_bug_data, bedrock_log, files, error, log>>

\* run(): f.write(slack_table_message) into bug_report.txt
run_save_report ==
    /\ pc = "save_report"
    /\ files' = files \cup {"bug_report.txt"}
    /\ pc' = "done"
    /\ UNCHANGED <<adf_body, body_text, py311, team_field_id, bugs, fetch_error, idx, comments, summary,
                   all_bug_data, bedrock_log, report, error, log>>

Next ==
    \/ run_fetch_bugs
    \/ run_check_bugs
    \/ run_get_bug_comments
    \/ run_summarize_comments
    \/ run_structure_bug_data
    \/ run_save_json
    \/ run_format_slack_table
    \/ run_save_report

Spec == Init /\ [][Next]_vars

----------------------------------------------------------------------------
(* format_slack_table called on its own, on any list of records *)

\* The record of a well-formed bug without comments
BaseRecord ==
    [bug_key |-> "BUG-0",
     summary |-> "Login fails",
     status |-> "Open",
     priority |-> "High",
     bug_url |-> jira_url \o "/browse/BUG-0",
     aging |-> [created_date |-> "2024-05-27T12:00:00Z", days_open |-> 5],
     last_updated |-> "2024-05-30T08:15:00Z",
     team |-> [team_name |-> None, components |-> <<>>, labels |-> <<>>],
     reporter |-> [name |-> "Unknown"],
     assignee |-> [name |-> "Unassigned"],
     comments |-> [count |-> 0, summary |-> NoComments, details |-> <<>>]]

\* Records that differ in the priority: the vocabulary and a foreign value
PriorityRecords ==
    {[BaseRecord EXCEPT !.priority = p] :
        p \in {"Highest", "High", "Medium", "Low", "Lowest", "Unknown", "Blocker"}}

\* Records that differ in the age: both sides of every bucket boundary, and
\* the negative age of a bug created after the run's instant
AgeRecords ==
    {[BaseRecord EXCEPT !.aging.days_open = d] : d \in {-1, 0, 7, 8, 30, 31, 90, 91, 95}}

\* Records that differ in last_updated
UpdatedRecords ==
    {[BaseRecord EXCEPT !.last_updated = u] :
        u \in {None, "", "2024-05-30T08:15:00Z", "2024-05-30T08:15:00.000+0000",
               "2024-05-30", "2024-13-45T00:00:00Z", "yesterday at noon", "N/A"}}

Letters == <<"a", "b", "c", "d", "e", "f">>

\* Texts of up to MaxWords words, the i-th word made of the i-th letter, of
\* lengths around half the table width and around the width itself
WordTexts ==
    UNION {{join(" ", [i \in 1..n |-> Repeat(Letters[i], l[i])]) :
              l \in [1..n -> {1, 50, 99, 100, 101}]} : n \in 0..MaxWords}

\* Records that differ in the summary of the comments
SummaryRecords ==
    {[BaseRecord EXCEPT !.comments.summary = t] :
        t \in WordTexts \cup {" ", "\n", "  - a\n  - b\n", NoComments, FailedSummary}}

\* Records that differ in the team: the name absent, empty, short, of 18 and
\* of 19 characters, with no, one or two components and no, one or three
\* labels ("backend-api, front" has 18 characters)
TeamRecords ==
    {[BaseRecord EXCEPT !.team = [team_name |-> t, components |-> c, labels |-> l]] :
        t \in {None, "", "CBP Ninja", Repeat("T", 18), Repeat("T", 19)},
        c \in {<<>>, <<"backend-api">>, <<"backend-api", "core">>},
        l \in {<<>>, <<"front">>, <<"front", "regress", "third">>}}

\* Lists of up to max records of one family, with keys BUG-1, BUG-2, ...
ListsOf(Records, max) ==
    UNION {{[i \in 1..n |-> [r[i] EXCEPT !.bug_key = IssueKey(i),
                                         !.bug_url = jira_url \o "/browse/" \o IssueKey(i)]] :
              r \in [1..n -> Records]} : n \in 0..max}

FormatInputs ==
    ListsOf(PriorityRecords, MaxSorted) \cup ListsOf(AgeRecords, MaxRecords)
    \cup ListsOf(UpdatedRecords, MaxRecords) \cup ListsOf(SummaryRecords, 1)
    \cup ListsOf(TeamRecords, 1)

InitFormat ==
    /\ pc = "call_format_slack_table"
    /\ py311 \in BOOLEAN
    /\ all_bug_data \in FormatInputs
    /\ team_field_id = None
    /\ bugs = <<>>
    /\ fetch_error = FALSE
    /\ idx = 1
    /\ comments = <<>>
    /\ summary = ""
    /\ bedrock_log = <<>>
    /\ files = {}
    /\ report = NotRendered
    /\ error = NoError
    /\ log = <<>>
    /\ adf_body = StrNode
    /\ body_text = ""

\* message = self.format_slack_table(all_bug_data)
call_format_slack_table ==
    /\ pc = "call_format_slack_table"
    /\ report' = format_slack_table(all_bug_data, py311)
    /\ pc' = "returned"
    /\ UNCHANGED <<adf_body, body_text, py311, team_field_id, bugs, fetch_error, idx, comments, summary,
                   all_bug_data, bedrock_log, files, error, log>>

SpecFormat == InitFormat /\ [][call_format_slack_table]_vars

----------------------------------------------------------------------------
(* _extract_text_from_adf called on its own, on any document *)

RECURSIVE AdfNodes(_, _), AdfForests(_, _)
\* The nodes, nested at most d deep, whose text leaves are, in document
\* order, the texts of leaves: the text node itself, a node without text, or
\* a dict with content (next to the leaves also a list) holding a forest of
\* such nodes
AdfNodes(leaves, d) ==
    (IF Len(leaves) = 1 THEN {TextNode(leaves[1])} ELSE {})
    \cup (IF leaves = <<>> THEN {BareNode("hardBreak"), StrNode} ELSE {})
    \cup (IF d = 0 THEN {}
          ELSE {ContainerNode("paragraph", f) : f \in AdfForests(leaves, d - 1)})
    \cup (IF d = 1 THEN {ListNode(f) : f \in AdfForests(leaves, 0)} ELSE {})

\* The lists of nodes whose text leaves are, in document order, the texts of
\* leaves; a list of leaves may end in a node without text
AdfForests(leaves, d) ==
    IF leaves = <<>> THEN (IF d = 0 THEN {<<>>, <<BareNode("hardBreak")>>} ELSE {<<>>})
    ELSE UNION {{<<n>> \o f : n \in AdfNodes(SubSeq(leaves, 1, k), d),
                              f \in AdfForests(SubSeq(leaves, k + 1, Len(leaves)), d)} :
                  k \in 1..Len(leaves)}

\* The texts of the leaves of a document of n leaves, all different
LeafTexts(n) == [k \in 1..n |-> Letters[k] \o Letters[k]]

\* The documents explored, each with the texts of its leaves in document order
AdfInputs ==
    UNION {{[doc |-> node, leaves |-> LeafTexts(n)] :
               node \in {m \in AdfNodes(LeafTexts(n), MaxDepth) : m.py = "dict"}} :
             n \in 0..MaxLeaves}

InitAdf ==
    /\ pc = "call_extract_text_from_adf"
    /\ adf_body \in {d.doc : d \in AdfInputs}
    /\ body_text = ""
    /\ py311 = TRUE
    /\ all_bug_data = <<>>
    /\ team_field_id = None
    /\ bugs = <<>>
    /\ fetch_error = FALSE
    /\ idx = 1
    /\ comments = <<>>
    /\ summary = ""
    /\ bedrock_log = <<>>
    /\ files = {}
    /\ report = NotRendered
    /\ error = NoError
    /\ log = <<>>

\* body_text = self._extract_text_from_adf(body)
call_extract_text_from_adf ==
    /\ pc = "call_extract_text_from_adf"
    /\ body_text' = _extract_text_from_adf(adf_body)
    /\ pc' = "extracted"
    /\ UNCHANGED <<adf_body, py311, team_field_id, bugs, fetch_error, idx, comments, summary,
                   all_bug_data, bedrock_log, files, report, error, log>>

SpecAdf == InitAdf /\ [][call_extract_text_from_adf]_vars

----------------------------------------------------------------------------
(* Properties of run() *)

HasComments(issue) == issue.fields.comment.present /\ issue.fields.comment.comments # <<>>

\* The calls of the summarization service made for the bug with this key
CallsFor(bug_key) == {k \in 1..Len(bedrock_log) : bedrock_log[k].bug_key = bug_key}

\* The issues summarize_comments has returned for: those structured, and the
\* one whose record is being (or failed to be) structured
Summarized ==
    (idx - 1) + (IF \/ pc = "structure_bug_data"
                    \/ (pc = "raised" /\ error.in = "structure_bug_data")
                 THEN 1 ELSE 0)

RunCompleted == pc \in {"save_json", "format_slack_table", "save_report", "done"} /\ bugs # <<>>

\* C1: the record of an issue whose service call failed holds "Failed to
\* generate summary.", the record of every other issue with comments holds
\* the text the service returned for that issue, no service failure leaves
\* run(), the records are those of the issues in order, and a run that
\* reaches its end has one record per fetched issue.
C1_SummaryFailureIsIsolated ==
    /\ error.in # "summarize_comments"
    /\ Len(all_bug_data) = idx - 1
    /\ RunCompleted => Len(all_bug_data) = Len(bugs)
    /\ \A i \in 1..Len(all_bug_data) :
          /\ all_bug_data[i].bug_key = bugs[i].key
          /\ HasComments(bugs[i]) =>
                \E k \in CallsFor(bugs[i].key) :
                    all_bug_data[i].comments.summary =
                        IF bedrock_log[k].ok
                        THEN BedrockText(bugs[i].key, bugs[i].fields.comment.comments)
                        ELSE FailedSummary

\* C1 witness: a finished run of two issues with comments, the call failed
\* for the first and answered for the second.
C1_Witness ==
    /\ pc = "done" /\ Len(all_bug_data) = 2
    /\ all_bug_data[1].comments.summary = FailedSummary
    /\ all_bug_data[2].comments.summary = BedrockText(bugs[2].key, bugs[2].fields.comment.comments)
    /\ Len(bedrock_log) = 2 /\ ~bedrock_log[1].ok /\ bedrock_log[2].ok

\* C2: no extraction error leaves run(): every fetched issue gets a record
\* and the run reaches its end.
C2_ExtractionErrorsAreRecovered ==
    /\ error = NoError
    /\ pc # "raised"

\* C3: an issue without comments gets "No comments available." and no call
\* of the service; the calls made are one per issue with comments among the
\* issues summarized so far (all fetched issues, in a run that reaches its
\* end), never two for one issue.
C3_OneCallPerIssueWithComments ==
    /\ \A i \in 1..Len(all_bug_data) :
          ~HasComments(bugs[i]) =>
              /\ all_bug_data[i].comments.summary = NoComments
              /\ CallsFor(bugs[i].key) = {}
    /\ pc = "structure_bug_data" /\ comments = <<>> =>
          summary = NoComments /\ CallsFor(bugs[idx].key) = {}
    /\ \A i \in 1..Summarized : Cardinality(CallsFor(bugs[i].key)) = IF HasComments(bugs[i]) THEN 1 ELSE 0
    /\ Len(bedrock_log) = Cardinality({i \in 1..Summarized : HasComments(bugs[i])})
    /\ RunCompleted => Len(bedrock_log) = Cardinality({i \in 1..Len(bugs) : HasComments(bugs[i])})

\* C3 witness: a finished run of an issue without comments and an issue with
\* comments, with one call, made for the second.
C3_Witness ==
    /\ pc = "done" /\ Len(bugs) = 2
    /\ ~HasComments(bugs[1]) /\ HasComments(bugs[2])
    /\ all_bug_data[1].comments.summary = NoComments
    /\ Len(bedrock_log) = 1 /\ bedrock_log[1].bug_key = bugs[2].key

\* C4: when the issue source fails, fetch_bugs returns the empty list, no
\* exception leaves run(), and run() ends without a call of the service,
\* without rendering and without writing a file.
C4_FetchFailureEndsRun ==
    fetch_error =>
        /\ bugs = <<>>
        /\ error = NoError
        /\ pc \in {"check_bugs", "done"}
        /\ bedrock_log = <<>>
        /\ report = NotRendered
        /\ files = {}
        /\ all_bug_data = <<>>

\* C4 witness: run() has ended after a failed fetch.
C4_Witness == fetch_error /\ pc = "done" /\ log # <<>>

\* C9: days_open of every record is non-negative.
C9_DaysOpenNonNegative ==
    \A i \in 1..Len(all_bug_data) : all_bug_data[i].aging.days_open >= 0

\* The lines of the log with this text
C13_Lines(text) == Cardinality({k \in 1..Len(log) : log[k] = text})

\* The lines of the log that are none of the lines fetch_bugs,
\* get_team_field_id, calculate_bug_aging and summarize_comments print
C13_OtherLines ==
    Cardinality({k \in 1..Len(log) :
        log[k] \notin {"Error fetching bugs", "Error getting team field ID",
                       "Error calculating bug aging", "Error summarizing comments"}})

\* The records whose created text calculate_bug_aging could not age
C13_AgeFailures ==
    Cardinality({i \in 1..Len(all_bug_data) :
        LET created_date == all_bug_data[i].aging.created_date
            created == fromisoformat(replace_Z(created_date), py311)
        IN created_date \notin {None, ""} /\ (~created.ok \/ ~created.aware)})

\* The comments of the structured issues whose body was neither a string nor
\* a document and became ""
C13_UnreadableBodies ==
    Cardinality({c \in UNION {{<<i, k>> : k \in 1..Len(bugs[i].fields.comment.comments)} :
                                i \in 1..Len(all_bug_data)} :
        bugs[c[1]].fields.comment.comments[c[2]].body.py = "none"})

\* The rows of the rendered report whose last_updated did not parse
C13_UnparsedLastUpdates ==
    Cardinality({i \in 1..Len(report.rows) :
        /\ all_bug_data[i].last_updated \notin {None, ""}
        /\ ~fromisoformat(replace_Z(all_bug_data[i].last_updated), py311).ok})

\* C13: every recovered error has its line in the log: the failed fetch, each
\* failed age computation, each failed summarization, and each unreadable
\* comment body and each unparseable last-update date of the rendered report.
C13_EveryRecoveryIsLogged ==
    /\ fetch_error => C13_Lines("Error fetching bugs") >= 1
    /\ C13_Lines("Error calculating bug aging") >= C13_AgeFailures
    /\ C13_Lines("Error summarizing comments")
          >= Cardinality({k \in 1..Len(bedrock_log) : ~bedrock_log[k].ok})
    /\ C13_OtherLines >= C13_UnreadableBodies + C13_UnparsedLastUpdates

----------------------------------------------------------------------------
(* Properties of format_slack_table *)

\* The place in the input list of the record shown at place i of the report
RowSource(i) ==
    CHOOSE j \in 1..Len(all_bug_data) : all_bug_data[j].bug_key = report.links[i].key

\* The rank the specification gives a priority
C5_Rank(priority) ==
    IF priority = "Highest" THEN 1
    ELSE IF priority = "High" THEN 2
    ELSE IF priority = "Medium" THEN 3
    ELSE IF priority = "Low" THEN 4
    ELSE IF priority = "Lowest" THEN 5
    ELSE 6

\* C5: the rows of the report are the input records, each exactly once, in
\* non-decreasing rank (Highest=1, High=2, Medium=3, Low=4, Lowest=5, Unknown
\* and any other value=6), and records of equal rank keep their input order.
C5_RowsAreStablySortedPermutation ==
    pc = "returned" =>
        LET n == Len(all_bug_data) IN
        /\ Len(report.rows) = n /\ Len(report.links) = n
        /\ \A i \in 1..n : \E j \in 1..n : all_bug_data[j].bug_key = report.links[i].key
        /\ \A i, k \in 1..n : i # k => RowSource(i) # RowSource(k)
        /\ \A i \in 1..n :
              /\ report.rows[i].ticket_id = ljust(all_bug_data[RowSource(i)].bug_key, 11)
              /\ report.rows[i].priority = ljust(Prefix(all_bug_data[RowSource(i)].priority, 8), 8)
        /\ \A i, k \in 1..n : i < k =>
              LET ri == C5_Rank(all_bug_data[RowSource(i)].priority)
                  rk == C5_Rank(all_bug_data[RowSource(k)].priority)
              IN /\ ri <= rk
                 /\ ri = rk => RowSource(i) < RowSource(k)

\* C5 witness: an unsorted list of three, a foreign priority first, rendered
\* with the High record first and the two of rank 6 in their input order.
C5_Witness ==
    /\ pc = "returned" /\ Len(all_bug_data) = 3
    /\ all_bug_data[1].priority = "Blocker"
    /\ all_bug_data[2].priority = "High"
    /\ all_bug_data[3].priority = "Unknown"
    /\ report.links[1].key = "BUG-2"
    /\ report.links[2].key = "BUG-1"
    /\ report.links[3].key = "BUG-3"

\* The indicator the specification gives an age
C6_Bucket(days_open) ==
    IF days_open > 90 THEN "red"
    ELSE IF 30 < days_open /\ days_open <= 90 THEN "orange"
    ELSE IF 7 < days_open /\ days_open <= 30 THEN "yellow"
    ELSE "green"

\* C6: the four age counts of the footer sum to the total, each count is the
\* number of rows with the matching indicator (red, orange, yellow, green),
\* and the indicator of a row is the one of the bucket its age falls in.
C6_AgeBucketsPartitionAndMatchRows ==
    pc = "returned" /\ all_bug_data # <<>> =>
        LET s == report.stats
            N == 1..Len(report.rows)
            With(e) == Cardinality({i \in N : report.rows[i].age_emoji = e})
        IN /\ s.total_bugs = Len(all_bug_data)
           /\ s.critical_age + s.aging + s.active + s.recent = s.total_bugs
           /\ s.critical_age = With("red")
           /\ s.aging = With("orange")
           /\ s.active = With("yellow")
           /\ s.recent = With("green")
           /\ \A i \in N :
                 report.rows[i].age_emoji = C6_Bucket(all_bug_data[RowSource(i)].aging.days_open)

\* C6 witness: a bug open 95 days is red and critical, one open 7 days is
\* green and recent.
C6_Witness ==
    /\ pc = "returned" /\ Len(all_bug_data) = 2
    /\ all_bug_data[1].aging.days_open = 95
    /\ all_bug_data[2].aging.days_open = 7
    /\ report.rows[1].age_emoji = "red"
    /\ report.rows[2].age_emoji = "green"
    /\ report.stats.critical_age = 1 /\ report.stats.recent = 1

\* C7: every line the word wrap produces is exactly max_width characters.
C7_WrappedLinesHaveFixedWidth ==
    pc = "returned" =>
        \A i \in 1..Len(report.summaries) :
            \A k \in 1..Len(report.summaries[i].lines) :
                Len(report.summaries[i].lines[k]) = max_width

\* The words of the wrapped lines of the summary at place i: the lines
\* stripped of their padding, joined with single spaces
Reassembled(i) ==
    LET lines == report.summaries[i].lines
    IN split(join(" ", [k \in 1..Len(lines) |-> strip(lines[k])]))

\* C8 as stated: for every non-empty summary the reassembled lines give the
\* word sequence of the summary.
C8_NonEmptySummaryIsReproduced ==
    pc = "returned" =>
        \A i \in 1..Len(report.summaries) :
            all_bug_data[RowSource(i)].comments.summary # "" =>
                Reassembled(i) = split(all_bug_data[RowSource(i)].comments.summary)

\* C8 as amended: for every summary with at least one word the reassembled
\* lines give the word sequence of the summary: no word dropped, repeated,
\* split or moved.
C8_SummaryWithWordsIsReproduced ==
    pc = "returned" =>
        \A i \in 1..Len(report.summaries) :
            split(all_bug_data[RowSource(i)].comments.summary) # <<>> =>
                Reassembled(i) = split(all_bug_data[RowSource(i)].comments.summary)

\* C8 witness: a summary of three words wrapped to more than one line.
C8_Witness ==
    /\ pc = "returned" /\ Len(all_bug_data) = 1
    /\ Len(split(all_bug_data[1].comments.summary)) = 3
    /\ Len(report.summaries[1].lines) >= 2

\* C10 as stated: the last-update cell is the date of last_updated when it
\* parses and "Unknown   " otherwise, and is always 10 characters wide.
C10_CellIsDateOrUnknown ==
    pc = "returned" =>
        \A i \in 1..Len(report.rows) :
            LET last_updated == all_bug_data[RowSource(i)].last_updated
                cell == report.rows[i].last_updated_str
                dt == fromisoformat(replace_Z(last_updated), py311)
            IN /\ Len(cell) = 10
               /\ cell = IF last_updated \notin {None, ""} /\ dt.ok
                         THEN strftime_date(dt) ELSE UnknownPadded

\* C10 as amended: the last-update cell is the date of last_updated when it
\* parses, "Unknown   " when last_updated is absent or empty, and otherwise
\* the first 10 characters of last_updated as they are, unpadded; it is never
\* wider than 10 characters, and 10 wide unless an unparseable text is
\* shorter.
C10_CellIsDateUnknownOrRawPrefix ==
    pc = "returned" =>
        \A i \in 1..Len(report.rows) :
            LET last_updated == all_bug_data[RowSource(i)].last_updated
                cell == report.rows[i].last_updated_str
                dt == fromisoformat(replace_Z(last_updated), py311)
            IN /\ Len(cell) <= 10
               /\ IF last_updated \in {None, ""} THEN cell = UnknownPadded
                  ELSE IF dt.ok THEN cell = strftime_date(dt) /\ Len(cell) = 10
                  ELSE /\ cell = Prefix(last_updated, 10)
                       /\ Len(cell) = Min(Len(last_updated), 10)

\* C10 witness: a row whose last_updated does not parse beside a row whose
\* last_updated does.
C10_Witness ==
    /\ pc = "returned" /\ Len(all_bug_data) = 2
    /\ all_bug_data[1].last_updated = "N/A"
    /\ report.rows[1].last_updated_str = "N/A"
    /\ all_bug_data[2].last_updated = "2024-05-30T08:15:00Z"
    /\ report.rows[2].last_updated_str = "2024-05-30"

\* The team-display string of the specification: the team name if present,
\* else the components followed by the first 2 labels, comma-joined
C11_Display(team) ==
    IF team.team_name # None /\ team.team_name # "" THEN team.team_name
    ELSE join(", ", team.components \o
                    [k \in 1..Min(2, Len(team.labels)) |-> team.labels[k]])

\* C11: the team cell of every overview row is exactly 18 characters: N/A
\* padded when the record has no team name, component or label; the first 15
\* characters of the team-display string and "..." when that string is
\* longer than 18 characters; else the string unchanged, padded to 18.
C11_TeamCellIs18Wide ==
    pc = "returned" =>
        \A i \in 1..Len(report.rows) :
            LET team == all_bug_data[RowSource(i)].team
                display == C11_Display(team)
                cell == report.rows[i].teams
            IN /\ Len(cell) = 18
               /\ cell = IF team.team_name \in {None, ""} /\ team.components = <<>>
                            /\ team.labels = <<>>
                         THEN "N/A" \o Spaces(15)
                         ELSE IF Len(display) > 18
                         THEN SubSeq(display, 1, 15) \o "..."
                         ELSE display \o Spaces(18 - Len(display))

\* C11 witness: no team name, two components and three labels: the first
\* two labels are joined in and the text of 24 characters is cut.
C11_Witness ==
    /\ pc = "returned" /\ Len(all_bug_data) = 1
    /\ all_bug_data[1].team.team_name = None
    /\ all_bug_data[1].team.components = <<"backend-api", "core">>
    /\ Len(all_bug_data[1].team.labels) = 3
    /\ report.rows[1].teams = "backend-api, co..."

----------------------------------------------------------------------------
(* Properties of _extract_text_from_adf *)

\* C12: the text extracted from a document is the texts of its leaves in
\* document order joined by single spaces, whatever the nesting: none
\* skipped, none repeated, none moved.
C12_TextIsLeavesInDocumentOrder ==
    pc = "extracted" =>
        \E n \in 0..MaxLeaves :
            /\ [doc |-> adf_body, leaves |-> LeafTexts(n)] \in AdfInputs
            /\ body_text = join(" ", LeafTexts(n))

\* C12 witness: a document with leaves at different depths, the first in a
\* paragraph inside a paragraph, extracted.
C12_Witness ==
    /\ pc = "extracted"
    /\ adf_body = ContainerNode("paragraph",
                      <<ContainerNode("paragraph", <<TextNode("aa"), BareNode("hardBreak")>>),
                        TextNode("bb"),
                        ListNode(<<TextNode("cc")>>)>>)
    /\ body_text = "aa bb cc"

=============================================================================
